---- MODULE Spec2Model ----
(***************************************************************************)
(* Model of KotlinDocsCrawler (src/crawler.py): the admission filter       *)
(* is_valid_url, the link extractor, and the batch loop of crawl().        *)
(*                                                                         *)
(* A URL string is a sequence of tokens whose concatenation is the string: *)
(* an origin token, then path tokens (each segment token begins with "/",  *)
(* an extension token begins with "."), then at most one "#..." token.     *)
(* A href is either such an absolute URL, a root-relative path (no origin  *)
(* token), a lone "#..." token, or a string the URL parser rejects.        *)
(***************************************************************************)
EXTENDS Naturals, Integers, Sequences, FiniteSets, TLC

(* ------------------------------ bounds ------------------------------- *)
MaxSeeds == 2
MaxConcurrent == 2
TickStep == 10500
MaxElapsed == 21000

(* ------------------------- tokens and strings ------------------------ *)
KOTLIN == "https://kotlinlang.org"
OTHERSITE == "https://other.org"
BADHOST == "http://["

Origins == {KOTLIN, OTHERSITE, BADHOST}
Segments == {"/", "/docs", "/api", "/blog", "/intro", "/images", "/logo", "/news", "/x",
             "/docs-old", "/doc"}
FragTokens == {"#overview", "#top"}

Rejected == <<>>

media_extensions ==
    {".jpg", ".jpeg", ".png", ".gif", ".bmp", ".svg", ".ico",
     ".mp3", ".wav", ".ogg", ".mp4", ".avi", ".mov", ".webm",
     ".pdf", ".zip", ".tar", ".gz"}

\* str.lower() on one token
Lower(t) == IF t = ".PNG" THEN ".png" ELSE t

\* str.startswith for one token: every segment token begins with "/",
\* and "/docs-old" begins with "/docs"
TokStartsWith(t, p) ==
    \/ t = p
    \/ (p = "/" /\ t \in Segments)
    \/ (p = "/docs" /\ t = "/docs-old")

\* url.startswith(prefix): the prefix ends inside the token at Len(p)
startswith(url, p) ==
    /\ Len(url) >= Len(p)
    /\ \A i \in 1..(Len(p) - 1) : url[i] = p[i]
    /\ TokStartsWith(url[Len(p)], p[Len(p)])

\* index of the first "#..." token, or Len(url) + 1
FragIndex(url) ==
    IF \E i \in 1..Len(url) : url[i] \in FragTokens
    THEN CHOOSE i \in 1..Len(url) :
            /\ url[i] \in FragTokens
            /\ \A j \in 1..(i - 1) : url[j] \notin FragTokens
    ELSE Len(url) + 1

\* url.split('#')[0]
SplitHash(url) == SubSeq(url, 1, FragIndex(url) - 1)

\* urlparse(url).path: what follows the origin, up to the fragment
UrlPath(url) == SubSeq(url, 2, FragIndex(url) - 1)

\* path.endswith(ext) on the lowercased path
PathEndsWith(path, ext) == Len(path) >= 1 /\ Lower(path[Len(path)]) = ext

\* urlparse raises ValueError("Invalid IPv6 URL") on an unbalanced '['
ParseRaises(url) == \E i \in 1..Len(url) : url[i] = BADHOST

\* the fragment is not removed
is_valid_url_KeepFragment(url) ==
    IF ~startswith(url, <<KOTLIN, "/">>) THEN Rejected
    ELSE IF ~(startswith(url, <<KOTLIN, "/docs">>) \/ startswith(url, <<KOTLIN, "/api">>))
    THEN Rejected
    ELSE IF \E ext \in media_extensions : PathEndsWith(UrlPath(url), ext)
    THEN Rejected
    ELSE url

is_valid_url(url) ==
    IF ~startswith(url, <<KOTLIN, "/">>) THEN Rejected
    ELSE IF ~(startswith(url, <<KOTLIN, "/docs">>) \/ startswith(url, <<KOTLIN, "/api">>))
    THEN Rejected
    ELSE IF \E ext \in media_extensions : PathEndsWith(UrlPath(url), ext)
    THEN Rejected
    ELSE IF \E i \in 1..Len(url) : url[i] \in FragTokens
    THEN SplitHash(url)
    ELSE url

\* urllib.parse.urljoin(base_url, href) for the href forms above
urljoin(base, href) ==
    IF href = <<>> THEN base
    ELSE IF href[1] \in Origins THEN href
    ELSE IF href[1] \in FragTokens THEN SplitHash(base) \o href
    ELSE <<base[1]>> \o href

(* ------------------------- the crawled site -------------------------- *)
Docs == <<KOTLIN, "/docs", "/">>
Api == <<KOTLIN, "/api", "/">>
Intro == <<KOTLIN, "/docs", "/intro", ".html">>
Blog == <<KOTLIN, "/blog", "/news">>
ApiIntro == <<KOTLIN, "/api", "/intro", ".html">>

hIntro == <<"/docs", "/intro", ".html">>
hIntroFrag == <<"/docs", "/intro", ".html", "#overview">>
hLogo == <<"/docs", "/images", "/logo", ".png">>
hLogoUpper == <<"/docs", "/images", "/logo", ".PNG">>
hBlog == <<KOTLIN, "/blog", "/news">>
hDocs == <<"/docs", "/">>
hApi == <<"/api", "/">>
hApiIntro == <<"/api", "/intro", ".html">>
hTop == <<"#top">>
hOther == <<OTHERSITE, "/docs", "/x">>
hBad == <<BADHOST>>

\* seed lists the constructor is given: any list, duplicates included
SeedUrls == {Docs, Api, Blog}
SeedLists == UNION {[1..n -> SeedUrls] : n \in 0..MaxSeeds}

\* the anchors of each page of the site (pages not listed have none)
NoPage == {}
WebScenario == [u \in {Docs, Intro, Api, Blog} |->
    IF u = Docs THEN {hIntro, hLogo, hBlog, hIntroFrag} ELSE NoPage]
WebCycle == [u \in {Docs, Intro, Api, Blog} |->
    IF u = Docs THEN {hIntro, hApi}
    ELSE IF u = Api THEN {hIntro, hOther}
    ELSE IF u = Intro THEN {hDocs, hTop, hLogoUpper}
    ELSE {hDocs}]
WebBadHref == [u \in {Docs, Intro, Api, Blog} |->
    IF u = Docs THEN {hBad, hIntro}
    ELSE IF u = Api THEN {hIntro, hApiIntro}
    ELSE IF u = Blog THEN {hApi}
    ELSE NoPage]
Webs == {WebScenario, WebCycle, WebBadHref}

\* the server's answers to one GET
HTML == "text/html; charset=utf-8"
Responses ==
    {[kind |-> "response", status |-> 200, content_type |-> HTML],
     [kind |-> "response", status |-> 200, content_type |-> "application/pdf"],
     [kind |-> "response", status |-> 404, content_type |-> HTML],
     [kind |-> "error", status |-> 0, content_type |-> ""]}

\* 'text/html' in content_type
ContainsTextHtml(content_type) == content_type \in {HTML, "text/html"}

\* the answers tried on a single call of fetch_page; an error can come
\* before or after the status line was read
TestResponses ==
    [kind : {"response", "error"},
     status : {200, 201, 301, 404, 500},
     content_type : {HTML, "text/html", "application/pdf", "application/xhtml+xml", ""}]

\* the absolute URLs tried on a single call of is_valid_url
TestUrls ==
    {<<o>> \o first \o rest \o frag :
        o \in {KOTLIN, OTHERSITE},
        first \in {<<>>, <<"/docs">>, <<"/api">>, <<"/blog">>, <<"/docs-old">>, <<"/doc">>},
        rest \in {<<>>, <<"/">>, <<"/intro", ".html">>, <<"/logo", ".png">>,
                  <<"/logo", ".PNG">>, <<"/docs", "/">>},
        frag \in {<<>>, <<"#overview">>, <<"#top">>}}

(* ----------------------------- the tasks ----------------------------- *)
None == [ok |-> FALSE, hrefs |-> {}]
Body(hrefs) == [ok |-> TRUE, hrefs |-> hrefs]

NotDone == [kind |-> "running", links |-> {}]
ExceptionResult == [kind |-> "exception", links |-> {}]
SetResult(links) == [kind |-> "set", links |-> links]

\* the page the server holds for url (the fragment is not sent)
PageOf(w, url) ==
    IF SplitHash(url) \in DOMAIN w THEN w[SplitHash(url)] ELSE NoPage

\* the content-type test left out
fetch_page_AnyType(resp, page) ==
    IF resp.kind = "error" THEN None
    ELSE IF resp.status = 200 THEN Body(page) ELSE None

fetch_page(resp, page) ==
    IF resp.kind = "error" THEN None
    ELSE IF resp.status = 200
         THEN IF ContainsTextHtml(resp.content_type) THEN Body(page) ELSE None
         ELSE None

extract_links(html, base_url, vis) ==
    IF \E href \in html.hrefs : ParseRaises(urljoin(base_url, href))
    THEN ExceptionResult
    ELSE SetResult({is_valid_url(urljoin(base_url, href)) : href \in
            {h \in html.hrefs :
                /\ is_valid_url(urljoin(base_url, h)) # Rejected
                /\ is_valid_url(urljoin(base_url, h)) \notin vis}})

process_url(resp, page, url, vis) ==
    IF fetch_page(resp, page).ok
    THEN extract_links(fetch_page(resp, page), url, vis)
    ELSE SetResult({})

(* --------------------------- the coordinator ------------------------- *)
VARIABLES
    base_urls,      \* constructor argument
    max_concurrent, \* constructor argument
    web,            \* the site being crawled
    visited,        \* self.visited
    to_visit,       \* self.to_visit
    all_links,      \* self.all_links
    pc,             \* position in crawl()
    batch_urls,     \* local of crawl()
    results,        \* what gather has collected, one slot per task
    idx,            \* position of the for loop over results
    elapsed,        \* time.time() - start_time
    batch_no,       \* history: iterations of the outer loop started
    batch_start,    \* history: to_visit as the current iteration found it
    dispatched,     \* history: every batch_urls.append, with its batch
    queued,         \* history: every insertion into to_visit
    found_in,       \* history: the batch that inserted each entry of queued
    fetch_failed,   \* history: urls whose fetch_page returned None
    raised,         \* history: urls whose process_url raised
    call            \* a single call of fetch_page or is_valid_url (CallSpec)

vars == <<base_urls, max_concurrent, web, visited, to_visit, all_links, pc,
          batch_urls, results, idx, elapsed, batch_no, batch_start, dispatched,
          queued, found_in, fetch_failed, raised, call>>

config == <<base_urls, max_concurrent, web>>
frontier == <<visited, to_visit, all_links>>
history == <<dispatched, queued, found_in, fetch_failed, raised>>

TimeBudget == 21000

\* the value of call while crawl() runs
NoCall == [fn |-> "none"]

Range(s) == {s[i] : i \in 1..Len(s)}

\* the orders in which iterating a set can yield its members
Orders(S) == {f \in [1..Cardinality(S) -> S] : \A i, j \in 1..Cardinality(S) : f[i] = f[j] => i = j}

\* the time test left out
LoopCond_NoBudget(tv, el) == tv # <<>>

LoopCond(tv, el) == tv # <<>> /\ el < TimeBudget

\* off by one in the batch size test
InnerCond_OffByOne(tv, batch, mc) == tv # <<>> /\ Len(batch) < mc - 1

\* <= in place of < in the batch size test
InnerCond_Inclusive(tv, batch, mc) == tv # <<>> /\ Len(batch) <= mc

InnerCond(tv, batch, mc) == tv # <<>> /\ Len(batch) < mc

\* the visited test left out
NotVisited_Always(url, vis) == TRUE

NotVisited(url, vis) == url \notin vis

\* the head is read but not removed
popleft_Keep(tv) == tv

popleft(tv) == Tail(tv)

\* the url is not marked when it is dequeued
MarkVisited_Later(vis, url) == vis

\* self.visited.add(url)
MarkVisited(vis, url) == vis \cup {url}

\* gather returns at the first finished task
AllDone_First(res) == \E i \in 1..Len(res) : res[i] # NotDone

\* gather returns once every awaitable has a result
AllDone(res) == \A i \in 1..Len(res) : res[i] # NotDone

IsException(result) == result.kind = "exception"

IsNonEmptySet(result) == result.kind = "set" /\ result.links # {}

\* the all_links gate left out
NewLinks_NoGate(result, all) == result

NewLinks(result, all) == result \ all

\* the update of all_links left out
UpdateAllLinks_Forget(all, new_links) == all

UpdateAllLinks(all, new_links) == all \cup new_links

\* break in place of continue on an exception
NextIdx_Break(result, i, n) == IF IsException(result) THEN n + 1 ELSE i + 1

\* the for loop moves to the next result, also after `continue`
NextIdx(result, i, n) == i + 1

\* extendleft in place of extend
Extend_Front(tv, order) == order \o tv

Extend(tv, order) == tv \o order

Init ==
    /\ base_urls \in SeedLists
    /\ max_concurrent \in 0..MaxConcurrent
    /\ web \in Webs
    /\ visited = {}
    /\ to_visit = base_urls
    /\ all_links = Range(base_urls)
    /\ pc = "init"
    /\ batch_urls = <<>>
    /\ results = <<>>
    /\ idx = 1
    /\ elapsed = 0
    /\ batch_no = 0
    /\ batch_start = <<>>
    /\ dispatched = <<>>
    /\ queued = base_urls
    /\ found_in = [i \in 1..Len(base_urls) |-> 0]
    /\ fetch_failed = {}
    /\ raised = {}
    /\ call = NoCall

\* init_session(); start_time = time.time()
CrawlStart ==
    /\ pc = "init"
    /\ pc' = "loop"
    /\ elapsed' = 0
    /\ UNCHANGED <<config, call, frontier, batch_urls, results, idx, batch_no, batch_start, history>>

\* the outer while condition; on exit close_session() and return
LoopTest ==
    /\ pc = "loop"
    /\ IF LoopCond(to_visit, elapsed)
       THEN /\ pc' = "dequeue"
            /\ batch_urls' = <<>>
            /\ batch_no' = batch_no + 1
            /\ batch_start' = to_visit
       ELSE /\ pc' = "done"
            /\ UNCHANGED <<batch_urls, batch_no, batch_start>>
    /\ UNCHANGED <<config, call, frontier, results, idx, elapsed, history>>

\* one iteration of the inner while
Dequeue ==
    /\ pc = "dequeue"
    /\ InnerCond(to_visit, batch_urls, max_concurrent)
    /\ LET url == Head(to_visit) IN
        /\ to_visit' = popleft(to_visit)
        /\ IF NotVisited(url, visited)
           THEN /\ visited' = MarkVisited(visited, url)
                /\ batch_urls' = Append(batch_urls, url)
                /\ dispatched' = Append(dispatched, [url |-> url, batch |-> batch_no])
           ELSE UNCHANGED <<visited, batch_urls, dispatched>>
    /\ UNCHANGED <<config, call, all_links, pc, results, idx, elapsed, batch_no,
                   batch_start, queued, found_in, fetch_failed, raised>>

\* if not batch_urls: break
EmptyBatchBreak ==
    /\ pc = "dequeue"
    /\ ~InnerCond(to_visit, batch_urls, max_concurrent)
    /\ batch_urls = <<>>
    /\ pc' = "done"
    /\ UNCHANGED <<config, call, frontier, batch_urls, results, idx, elapsed, batch_no, batch_start, history>>

\* tasks = [process_url(url) ...]; gather starts them
Dispatch ==
    /\ pc = "dequeue"
    /\ ~InnerCond(to_visit, batch_urls, max_concurrent)
    /\ batch_urls # <<>>
    /\ results' = [i \in 1..Len(batch_urls) |-> NotDone]
    /\ pc' = "gather"
    /\ UNCHANGED <<config, call, frontier, batch_urls, idx, elapsed, batch_no, batch_start, history>>

\* one task runs process_url to its end
TaskFinish(i) ==
    /\ pc = "gather"
    /\ results[i] = NotDone
    /\ \E resp \in Responses :
        LET url == batch_urls[i]
            page == PageOf(web, url)
            result == process_url(resp, page, url, visited)
        IN  /\ results' = [results EXCEPT ![i] = result]
            /\ fetch_failed' = IF fetch_page(resp, page).ok THEN fetch_failed
                               ELSE fetch_failed \cup {url}
            /\ raised' = IF IsException(result) THEN raised \cup {url} ELSE raised
    /\ UNCHANGED <<config, call, frontier, pc, batch_urls, idx, elapsed, batch_no,
                   batch_start, dispatched, queued, found_in>>

\* gather returns once every task has finished
Join ==
    /\ pc = "gather"
    /\ AllDone(results)
    /\ pc' = "merge"
    /\ idx' = 1
    /\ UNCHANGED <<config, call, frontier, batch_urls, results, elapsed, batch_no, batch_start, history>>

\* one iteration of the for loop over results
MergeResult ==
    /\ pc = "merge"
    /\ idx <= Len(results)
    /\ LET result == results[idx] IN
        IF IsException(result)
        THEN UNCHANGED <<all_links, to_visit, queued, found_in>>
        ELSE IF IsNonEmptySet(result)
        THEN LET new_links == NewLinks(result.links, all_links) IN
             /\ all_links' = UpdateAllLinks(all_links, new_links)
             /\ \E order \in Orders(new_links) :
                    /\ to_visit' = Extend(to_visit, order)
                    /\ queued' = queued \o order
                    /\ found_in' = found_in \o [i \in 1..Len(order) |-> batch_no]
        ELSE UNCHANGED <<all_links, to_visit, queued, found_in>>
    /\ idx' = NextIdx(results[idx], idx, Len(results))
    /\ UNCHANGED <<config, call, visited, pc, batch_urls, results, elapsed, batch_no,
                   batch_start, dispatched, fetch_failed, raised>>

\* the for loop is over: print the counts, sleep, back to the while test
EndBatch ==
    /\ pc = "merge"
    /\ idx > Len(results)
    /\ pc' = "loop"
    /\ UNCHANGED <<config, call, frontier, batch_urls, results, idx, elapsed, batch_no, batch_start, history>>

\* wall-clock time passes while crawl() runs
Tick ==
    /\ pc \notin {"init", "done"}
    /\ elapsed < MaxElapsed
    /\ elapsed' = elapsed + TickStep
    /\ UNCHANGED <<config, call, frontier, pc, batch_urls, results, idx, batch_no, batch_start, history>>

Crawl ==
    \/ CrawlStart
    \/ LoopTest
    \/ Dequeue
    \/ EmptyBatchBreak
    \/ Dispatch
    \/ \E i \in 1..Len(results) : TaskFinish(i)
    \/ Join
    \/ MergeResult
    \/ EndBatch

Next == Crawl \/ Tick

\* a single call of fetch_page on a crawler that is not running
CallFetchPage ==
    /\ \E resp \in TestResponses, w \in Webs :
        \E u \in DOMAIN w :
            call' = [fn |-> "fetch_page", resp |-> resp, page |-> w[u],
                     out |-> fetch_page(resp, w[u])]
    /\ UNCHANGED <<config, frontier, pc, batch_urls, results, idx, elapsed,
                   batch_no, batch_start, history>>

\* a single call of is_valid_url on a crawler that is not running
CallIsValidUrl ==
    /\ \E url \in TestUrls :
        call' = [fn |-> "is_valid_url", url |-> url, out |-> is_valid_url(url)]
    /\ UNCHANGED <<config, frontier, pc, batch_urls, results, idx, elapsed,
                   batch_no, batch_start, history>>

CallInit ==
    /\ Init
    /\ base_urls = <<Docs, Api>>
    /\ max_concurrent = MaxConcurrent
    /\ web = WebScenario

CallNext == CallFetchPage \/ CallIsValidUrl

CallSpec == CallInit /\ [][CallNext]_vars

Spec == Init /\ [][Next]_vars

\* every task finishes and the coordinator keeps running
LiveSpec == Spec /\ WF_vars(Crawl)

(* ------------------------------ claims ------------------------------- *)
Failures == fetch_failed \cup raised

DispatchedUrls == {dispatched[k].url : k \in 1..Len(dispatched)}

\* C1: no URL is put into a fetch batch more than once, neither twice in
\* one batch nor in two batches, also when several tasks of one batch
\* return it as a candidate.
NoDuplicateDispatch ==
    \A i, j \in 1..Len(dispatched) :
        dispatched[i].url = dispatched[j].url => i = j

\* two tasks of the last batch returned the same candidate, which has since
\* been dispatched
SharedCandidateDispatched ==
    /\ pc = "dequeue"
    /\ \E i, j \in 1..Len(results) :
        /\ i # j
        /\ \E u \in results[i].links \cap results[j].links : u \in DispatchedUrls

\* C2: with max_concurrent >= 1, tasks that all finish and a budget that is
\* never reached, crawl eventually returns with the pending queue empty.
Termination ==
    (max_concurrent >= 1) =>
        <>(elapsed >= TimeBudget \/ (pc = "done" /\ to_visit = <<>>))

StoppedWithEmptyQueue ==
    /\ pc = "done"
    /\ to_visit = <<>>
    /\ max_concurrent >= 1
    /\ elapsed < TimeBudget
    /\ batch_no >= 2

\* the links of page u as admitted, whatever the frontier holds
AdmittedLinks(w, u) ==
    {is_valid_url(urljoin(u, h)) : h \in
        {g \in PageOf(w, u) :
            /\ ~ParseRaises(urljoin(u, g))
            /\ is_valid_url(urljoin(u, g)) # Rejected}}

RECURSIVE Closure(_, _)
Closure(w, S) ==
    LET T == S \cup UNION {AdmittedLinks(w, u) : u \in S}
    IN  IF T = S THEN S ELSE Closure(w, T)

\* C3: when crawl stops with the queue empty and every fetch
\* succeeded, the result is exactly the closure of the seeds under
\* "page u contains a link whose admitted form is v".
ClosureWhenFetchesSucceed ==
    (pc = "done" /\ to_visit = <<>> /\ fetch_failed = {}) =>
        all_links = Closure(web, Range(base_urls))

\* the closure is reached when, in addition, no process_url task raised
ClosureWhenNothingFails ==
    (pc = "done" /\ to_visit = <<>> /\ fetch_failed = {} /\ raised = {}) =>
        all_links = Closure(web, Range(base_urls))

FullTraversalDone ==
    /\ pc = "done"
    /\ to_visit = <<>>
    /\ Failures = {}
    /\ Cardinality(all_links \ Range(base_urls)) >= 2

\* C4: the budget is tested only by the outer loop condition: a test made
\* at or past the budget ends the crawl with nothing more dequeued, the
\* set is returned as it stands and is nonempty when there are seeds, and a
\* batch in flight past the budget still completes and is merged.
BudgetAtBatchBoundary ==
    [][ /\ (pc = "loop" /\ elapsed >= TimeBudget /\ pc' # pc) =>
                (pc' = "done" /\ UNCHANGED <<frontier, dispatched>>)
        /\ (pc # "done" /\ pc' = "done") =>
                /\ pc = "loop" \/ (pc = "dequeue" /\ batch_urls = <<>>)
                /\ all_links' = all_links
                /\ (base_urls # <<>> => all_links' # {})
        /\ (pc \in {"gather", "merge"} /\ pc' # pc) => pc' \in {"merge", "loop"}
        /\ (pc = "merge" /\ pc' = "loop") =>
                \A i \in 1..Len(results) :
                    results[i].kind = "set" => results[i].links \subseteq all_links'
        /\ pc = "done" => UNCHANGED vars
      ]_vars

\* stopped by the budget, queue not empty, after a batch was merged
StoppedByBudget ==
    /\ pc = "done"
    /\ elapsed >= TimeBudget
    /\ max_concurrent >= 1
    /\ to_visit # <<>>
    /\ batch_no = 1
    /\ all_links # Range(base_urls)

\* C5: with max_concurrent >= 1, when crawl has returned either the queue
\* is empty or the elapsed time has reached the budget.
StopsOnlyWhenEmptyOrOverBudget ==
    (pc = "done" /\ max_concurrent >= 1) =>
        (to_visit = <<>> \/ elapsed >= TimeBudget)

\* returned before the budget, after a failed task and an empty-batch break
StoppedAfterFailure ==
    /\ pc = "done"
    /\ max_concurrent >= 1
    /\ elapsed < TimeBudget
    /\ Failures # {}
    /\ batch_urls = <<>>
    /\ batch_no >= 2

\* C6: counting the seeding of the queue and every later merge, each URL
\* is inserted into the pending queue at most once.
QueuedAtMostOnce ==
    \A i, j \in 1..Len(queued) : queued[i] = queued[j] => i = j

\* C7: in every state of the coordinator the discovered set is the union
\* of the visited set and the URLs of the pending queue.
DiscoveredIsVisitedAndPending ==
    all_links = visited \cup Range(to_visit)

\* a batch in flight, after an earlier batch was merged, with URLs pending
InFlightAfterMerge ==
    /\ pc = "gather"
    /\ batch_no >= 2
    /\ to_visit # <<>>
    /\ all_links # Range(base_urls)

\* C8: every URL of the returned set, the seeds included, passes the
\* admission filter unchanged: is_valid_url(u) = u.
ResultIsAdmitted ==
    pc = "done" => \A u \in all_links : is_valid_url(u) = u

\* C9: one seed .../docs/ whose page links to /docs/intro.html,
\* /docs/images/logo.png, .../blog/news and /docs/intro.html#overview, and
\* intro.html without links: after the full traversal the discovered set is
\* {.../docs/, .../docs/intro.html} and each of the two was dispatched once.
ScenarioRun ==
    /\ base_urls = <<Docs>>
    /\ web = WebScenario
    /\ pc = "done"
    /\ to_visit = <<>>
    /\ Failures = {}

ScenarioResult ==
    ScenarioRun =>
        /\ all_links = {Docs, Intro}
        /\ Len(dispatched) = 2
        /\ DispatchedUrls = {Docs, Intro}

ScenarioTraversed == ScenarioRun /\ batch_no = 2

\* C10: a failed task contributes no links and changes nothing else; the
\* links of every sibling task of the batch are merged, the loop goes on
\* with the next batch, and the failed URL stays visited and is never
\* dispatched again.
FailureIsolated ==
    [][ /\ (pc = "merge" /\ idx <= Len(results) /\ idx' # idx
                /\ batch_urls[idx] \in Failures) => UNCHANGED frontier
        /\ (pc = "merge" /\ pc' # pc) =>
                /\ pc' = "loop"
                /\ \A i \in 1..Len(results) :
                        /\ results[i].links \subseteq all_links'
                        /\ results[i].links \subseteq visited' \cup Range(to_visit')
        /\ Failures \subseteq visited'
        /\ \A k \in (Len(dispatched) + 1)..Len(dispatched') :
                dispatched'[k].url \notin Failures
      ]_vars

\* a second batch in flight after a batch in which one task failed and a
\* sibling returned links
NextBatchAfterFailure ==
    /\ pc = "gather"
    /\ batch_no = 2
    /\ \E i, j \in 1..Len(dispatched) :
        /\ dispatched[i].batch = 1 /\ dispatched[j].batch = 1
        /\ dispatched[i].url \in Failures
        /\ dispatched[j].url \notin Failures
        /\ AdmittedLinks(web, dispatched[j].url) \cap Range(batch_urls) # {}

InFlight == {i \in 1..Len(results) : results[i] = NotDone}

\* C11: the batch is a barrier: while a task of batch N is unfinished no
\* result is merged into all_links or to_visit, no URL is dequeued, and no
\* task of a next batch is created.
BatchBarrier ==
    [][ InFlight # {} =>
            /\ UNCHANGED <<frontier, batch_urls, batch_no, dispatched, queued>>
            /\ pc' = "gather"
            /\ Len(results') = Len(results)
            /\ \A i \in 1..Len(results) : results[i] # NotDone => results'[i] = results[i]
      ]_vars

\* the second batch is being dequeued after a first batch of two tasks
\* whose results were merged
NextBatchAfterJoin ==
    /\ pc = "dequeue"
    /\ batch_no = 2
    /\ batch_urls # <<>>
    /\ Len(results) = 2
    /\ all_links # Range(base_urls)

\* the first occurrences of the members of q that are not in vis, in order
RECURSIVE Unvisited(_, _)
Unvisited(q, vis) ==
    IF q = <<>> THEN <<>>
    ELSE IF Head(q) \in vis THEN Unvisited(Tail(q), vis)
    ELSE <<Head(q)>> \o Unvisited(Tail(q), vis \cup {Head(q)})

Min(a, b) == IF a <= b THEN a ELSE b

\* C12: never more than max_concurrent tasks in flight, and each batch is
\* the first min(max_concurrent, number of unvisited pending URLs) unvisited
\* URLs of the queue in FIFO order.
BoundedFifoBatch ==
    /\ Cardinality(InFlight) <= max_concurrent
    /\ pc \in {"gather", "merge"} =>
        LET cand == Unvisited(batch_start, visited \ Range(batch_urls))
        IN  batch_urls = SubSeq(cand, 1, Min(max_concurrent, Len(cand)))

\* a full batch in flight, in a later iteration, while more URLs wait
FullBatchInFlight ==
    /\ pc = "gather"
    /\ Cardinality(InFlight) = max_concurrent
    /\ to_visit # <<>>
    /\ batch_no >= 2

\* the batch whose merge first put u into the queue q (0 for a seed)
FoundInLog(q, f, u) ==
    f[CHOOSE i \in 1..Len(q) : q[i] = u /\ \A j \in 1..(i - 1) : q[j] # u]

FoundIn(u) == FoundInLog(queued, found_in, u)

\* C13: a merge appends behind everything pending, and no URL found by a
\* later batch is dispatched in an earlier batch than a URL found by an
\* earlier batch.
FifoAcrossBatches ==
    [][ /\ (pc = "merge" /\ to_visit' # to_visit) =>
                /\ Len(to_visit') > Len(to_visit)
                /\ SubSeq(to_visit', 1, Len(to_visit)) = to_visit
        /\ \A j \in 1..Len(dispatched') :
            \A u \in Range(queued') :
                FoundInLog(queued', found_in', u)
                        < FoundInLog(queued', found_in', dispatched'[j].url) =>
                    \E i \in 1..Len(dispatched') :
                        /\ dispatched'[i].url = u
                        /\ dispatched'[i].batch <= dispatched'[j].batch
      ]_vars

\* URLs found by the first and by the second batch have both been dispatched
TwoGenerationsDispatched ==
    \E i, j \in 1..Len(dispatched) :
        /\ FoundIn(dispatched[i].url) = 1
        /\ FoundIn(dispatched[j].url) = 2

\* C14: visited only grows, a URL is marked when it is dequeued, so every
\* URL of a batch is visited before the tasks of the batch start, and the
\* visited URLs are exactly those that were put into a batch.
VisitedAtDequeue ==
    [][ /\ visited \subseteq visited'
        /\ Range(batch_urls') \subseteq visited'
        /\ visited' = DispatchedUrls'
      ]_vars

\* a batch of two whose tasks have not started, both URLs already visited
BatchMarkedBeforeFetch ==
    /\ pc = "gather"
    /\ Len(batch_urls) = 2
    /\ Cardinality(InFlight) = 2
    /\ Range(batch_urls) \subseteq visited
    /\ batch_no >= 2

\* what a task returns for a fetched page when nothing is visited yet
LinksWithoutVisitedTest(w, url) == extract_links(Body(PageOf(w, url)), url, {})

\* C15: the tasks never change visited, to_visit or all_links, which change
\* only in the coordinator's dequeue and merge steps, and what a task
\* returns depends on its URL and page alone, not on the frontier.
TasksPureFrontierOwned ==
    [][ /\ (pc = "gather" /\ pc' = "gather") => UNCHANGED frontier
        /\ ~(UNCHANGED frontier) => pc \in {"dequeue", "merge"}
        /\ \A i \in 1..Len(results) :
                (/\ pc = "gather"
                 /\ results[i] = NotDone
                 /\ results'[i] # NotDone
                 /\ batch_urls[i] \notin fetch_failed') =>
                    results'[i] = LinksWithoutVisitedTest(web, batch_urls[i])
      ]_vars

\* the frontier is changed by the dequeue and merge steps only
FrontierOwnedByCoordinator ==
    [][ /\ (pc = "gather" /\ pc' = "gather") => UNCHANGED frontier
        /\ ~(UNCHANGED frontier) => pc \in {"dequeue", "merge"}
      ]_vars

\* C19: the visited test of extract_links never changes a merge: visited is
\* inside all_links, so the links a result adds to all_links and to_visit
\* are those the result without the visited test would add.
VisitedTestRedundant ==
    /\ visited \subseteq all_links
    /\ pc \in {"gather", "merge"} =>
        \A i \in 1..Len(results) :
            (results[i] # NotDone /\ batch_urls[i] \notin fetch_failed) =>
                /\ results[i].kind = LinksWithoutVisitedTest(web, batch_urls[i]).kind
                /\ NewLinks(results[i].links, all_links) =
                   NewLinks(LinksWithoutVisitedTest(web, batch_urls[i]).links, all_links)

\* a result from which the visited test removed a link is being merged
VisitedTestRemovedLink ==
    /\ pc = "merge"
    /\ idx <= Len(results)
    /\ batch_urls[idx] \notin fetch_failed
    /\ results[idx].kind = "set"
    /\ results[idx].links # LinksWithoutVisitedTest(web, batch_urls[idx]).links

\* C20: at every evaluation of the outer loop condition visited and the
\* pending queue are disjoint and the queue holds no URL twice, for every
\* seed list the constructor accepts.
QueueFreshAtBoundary ==
    pc = "loop" =>
        /\ visited \cap Range(to_visit) = {}
        /\ \A i, j \in 1..Len(to_visit) : to_visit[i] = to_visit[j] => i = j

\* C16: fetch_page returns a page body only for status 200 with a
\* content-type containing 'text/html'; for every other status or
\* content-type, and for every error raised by the request, it returns
\* None.
FetchPageContract ==
    call.fn = "fetch_page" =>
        LET good == /\ call.resp.kind = "response"
                    /\ call.resp.status = 200
                    /\ call.resp.content_type \in {"text/html", "text/html; charset=utf-8"}
        IN  /\ good => call.out = [ok |-> TRUE, hrefs |-> call.page]
            /\ ~good => call.out = [ok |-> FALSE, hrefs |-> {}]

\* status 200 with a content-type that is not HTML gave None
NonHtmlRefused ==
    /\ call.fn = "fetch_page"
    /\ call.resp.kind = "response"
    /\ call.resp.status = 200
    /\ call.resp.content_type = "application/pdf"
    /\ call.page # {}
    /\ ~call.out.ok

\* the ordered reference: origin, then path prefix, then extension of the
\* lowercased path, then the URL without its fragment
AdmitReference(url) ==
    LET path == SelectSeq(SubSeq(url, 2, Len(url)), LAMBDA t : t \notin FragTokens)
        last == IF path = <<>> THEN "" ELSE path[Len(path)]
        lowered == IF last = ".PNG" THEN ".png" ELSE last
    IN  IF url[1] # KOTLIN THEN <<>>
        ELSE IF path = <<>> \/ path[1] \notin {"/docs", "/api", "/docs-old"} THEN <<>>
        ELSE IF lowered \in media_extensions THEN <<>>
        ELSE <<url[1]>> \o path

\* C17: on every URL of the test set is_valid_url agrees with the ordered
\* reference, and URLs that differ only in their fragment are admitted to
\* the same canonical URL.
AdmissionMatchesReference ==
    call.fn = "is_valid_url" =>
        /\ call.out = AdmitReference(call.url)
        /\ \A f \in FragTokens :
                is_valid_url(SplitHash(call.url) \o <<f>>) = is_valid_url(SplitHash(call.url))
        /\ call.out = is_valid_url(SplitHash(call.url))

\* a URL with a fragment was admitted without it
FragmentStripped ==
    /\ call.fn = "is_valid_url"
    /\ Len(call.url) > FragIndex(call.url) - 1
    /\ call.out # Rejected
    /\ call.out = SplitHash(call.url)

\* the URLs within d admitted links of the set S
RECURSIVE Within(_, _, _)
Within(w, S, d) ==
    IF d = 0 THEN S
    ELSE LET P == Within(w, S, d - 1)
         IN  P \cup UNION {AdmittedLinks(w, u) : u \in P}

\* the length of the shortest path of admitted links from a seed to u
Dist(w, S, u) ==
    CHOOSE d \in 0..Cardinality(Closure(w, S)) :
        /\ u \in Within(w, S, d)
        /\ d = 0 \/ u \notin Within(w, S, d - 1)

InBreadthFirstOrder ==
    \A i, j \in 1..Len(dispatched) :
        Dist(web, Range(base_urls), dispatched[i].url)
                < Dist(web, Range(base_urls), dispatched[j].url) =>
            dispatched[i].batch <= dispatched[j].batch

\* C18: when every fetch succeeds, no URL at link distance d + 1 from the
\* seeds is put into an earlier batch than a URL at distance d.
BreadthFirstWhenFetchesSucceed == fetch_failed = {} => InBreadthFirstOrder

\* the order is breadth-first when, in addition, no process_url task raised
BreadthFirstWhenNothingFails == Failures = {} => InBreadthFirstOrder

====
